---- MODULE Spec2Model ----
(***************************************************************************)
(* Model of the age calculation engines of the corrected-age calculator:   *)
(*   - the TypeScript engine (domain/age/utils.ts): computeCalculatorResults*)
(*     and its helpers, on top of date-fns;                                *)
(*   - the JavaScript engine (js/calculator.js, js/utils.js):              *)
(*     AgeCalculator.calculateAllAges and Utils.daysBetween & co.          *)
(*                                                                         *)
(* A JavaScript Date is its getTime() value.  Every instant of the model   *)
(* is a whole hour, so getTime() is counted in hours since 1970-01-01T00Z  *)
(* and the constant 1000*60*60*24 of the code is 24 (MS_PER_DAY).          *)
(* The host time zone is part of the state: "UTC" has offset 0, "New_York" *)
(* is UTC-5 and switches to UTC-4 on 2024-03-10 at 07:00Z.                 *)
(***************************************************************************)
EXTENDS Integers, Sequences, FiniteSets, TLC

(***************************************************************************)
(* Bounds of the model.  Calendar days are counted from BaseDay, which is  *)
(* 2024-02-28: the window holds the leap day, a month end and the start of *)
(* daylight saving time in New York (2024-03-10, the day BaseDay + 11).    *)
(***************************************************************************)
MaxBirthDay == 0
MaxDay == 14
MinGaWeeks == 19
MaxGaWeeks == 45
MaxGaDays == 7
MaxDateDay == 12
MaxBelowZero == 1
MaxAgeDays == 1
MaxFormDay == 2
MaxAppDay == 1
MaxOutOfRange == 1

MS_PER_DAY == 24

Zones == {"UTC", "New_York"}
TimesOfDay == {0, 20}

Abs(x) == IF x < 0 THEN -x ELSE x
Max(a, b) == IF a >= b THEN a ELSE b

(***************************************************************************)
(* Calendar arithmetic of the Date object (proleptic Gregorian calendar).  *)
(* Months are 0..11 as in getMonth().                                      *)
(***************************************************************************)
DaysFromCivil(year, month, dayOfMonth) ==
    LET m1 == month + 1
        y == IF m1 <= 2 THEN year - 1 ELSE year
        era == y \div 400
        yoe == y - era * 400
        mp == IF m1 > 2 THEN m1 - 3 ELSE m1 + 9
        doy == (153 * mp + 2) \div 5 + dayOfMonth - 1
        doe == yoe * 365 + yoe \div 4 - yoe \div 100 + doy
    IN  era * 146097 + doe - 719468

\* the date of the day doy of the year that starts on March 1st of year y
CivilOfYear(y, doy) ==
    LET mp == (5 * doy + 2) \div 153
    IN  [year |-> IF mp < 10 THEN y ELSE y + 1,
         month |-> (mp + 2) % 12,
         date |-> doy - (153 * mp + 2) \div 5 + 1]

\* the date of the day doe of the 400-year era
CivilOfEra(era, doe) ==
    LET yoe == (doe - doe \div 1460 + doe \div 36524 - doe \div 146096) \div 365
    IN  CivilOfYear(yoe + era * 400, doe - (365 * yoe + yoe \div 4 - yoe \div 100))

CivilFromDays(dayNumber) ==
    LET z == dayNumber + 719468
    IN  CivilOfEra(z \div 146097, z % 146097)

BaseDay == DaysFromCivil(2024, 1, 28)
DstStart == DaysFromCivil(2024, 2, 10) * 24 + 7

\* Date.prototype.getTimezoneOffset, with the sign of an ISO offset (local = UTC + offset)
UtcOffset(zone, t) ==
    IF zone = "UTC" THEN 0
    ELSE IF t < DstStart THEN -5 ELSE -4

\* new Date(year, month, date, hours) resolved in the host zone; the calendar date is
\* given by its day number, the time of day is never inside the skipped hour
LocalDate(zone, dayNumber, hours) ==
    LET wall == dayNumber * 24 + hours
        guess == wall - UtcOffset(zone, wall)
    IN  wall - UtcOffset(zone, guess)

(***************************************************************************)
(* State: the host time zone, the inputs of one calculation, what the two  *)
(* engines returned for them and what the validators said of them          *)
(* (NoResult before the engine or the validators have run); the clock, the *)
(* fields of the JavaScript form (formData), UIController.state (state)    *)
(* and the form state of the React form (formState).                       *)
(***************************************************************************)
VARIABLES tz, birthDate, assessmentDate, gaBirth, useCorrection, results, ages, validation,
          clock, formData, state, formState

vars == <<tz, birthDate, assessmentDate, gaBirth, useCorrection, results, ages, validation,
          clock, formData, state, formState>>

NoResult == [status |-> "none"]

\* The local calendar day number and hour of an instant in the host zone
LocalDayNumber(t) == (t + UtcOffset(tz, t)) \div 24
LocalHours(t) == (t + UtcOffset(tz, t)) % 24
\* Date.prototype.getFullYear / getMonth / getDate / getHours
getFullYear(date) == CivilFromDays(LocalDayNumber(date)).year
getMonth(date) == CivilFromDays(LocalDayNumber(date)).month
getDate(date) == CivilFromDays(LocalDayNumber(date)).date
getHours(date) == LocalHours(date)
\* new Date(year, month, date, hours) with the overflow rules of MakeDay
MakeLocal(year, month, dayOfMonth, hours) ==
    LocalDate(tz, DaysFromCivil(year + month \div 12, month % 12, 1) + dayOfMonth - 1, hours)
\* Date.prototype.setDate(dayOfMonth), setMonth(month), setFullYear(year)
setDate(date, dayOfMonth) ==
    MakeLocal(getFullYear(date), getMonth(date), dayOfMonth, getHours(date))
setMonth(date, month) ==
    MakeLocal(getFullYear(date), month, getDate(date), getHours(date))
setFullYear(date, year) ==
    MakeLocal(year, getMonth(date), getDate(date), getHours(date))
\* Date.prototype.getUTCFullYear / getUTCMonth / getUTCDate
getUTCFullYear(date) == CivilFromDays(date \div 24).year
getUTCMonth(date) == CivilFromDays(date \div 24).month
getUTCDate(date) == CivilFromDays(date \div 24).date
\* Date.UTC(year, month, date)
DateUTC(year, month, dayOfMonth) == DaysFromCivil(year, month, dayOfMonth) * 24

(***************************************************************************)
(* date-fns, as used by the TypeScript engine.  All of it works on the     *)
(* local fields of the Date in the host zone.                              *)
(***************************************************************************)
Sign(x) == IF x < 0 THEN -1 ELSE IF x > 0 THEN 1 ELSE 0
compareAsc(dateLeft, dateRight) == Sign(dateLeft - dateRight)
\* Math.round of the quotient n / d, d > 0
RoundDiv(n, d) == (2 * n + d) \div (2 * d)

\* date.setHours(0, 0, 0, 0)
startOfDay(date) == LocalDate(tz, LocalDayNumber(date), 0)
getTimezoneOffsetInMilliseconds(date) == 0 - UtcOffset(tz, date)
\* compareLocalAsc of differenceInDays: the sign of the first differing local field
compareLocalAsc(dateLeft, dateRight) ==
    Sign((dateLeft + UtcOffset(tz, dateLeft)) - (dateRight + UtcOffset(tz, dateRight)))

differenceInCalendarDays(dateLeft, dateRight) ==
    LET startOfDayLeft == startOfDay(dateLeft)
        startOfDayRight == startOfDay(dateRight)
        timestampLeft == startOfDayLeft - getTimezoneOffsetInMilliseconds(startOfDayLeft)
        timestampRight == startOfDayRight - getTimezoneOffsetInMilliseconds(startOfDayRight)
    IN  RoundDiv(timestampLeft - timestampRight, MS_PER_DAY)

addDays(date, amount) ==
    IF amount = 0 THEN date
    ELSE setDate(date, getDate(date) + amount)

\* endOfDesiredMonth.setMonth(date.getMonth() + amount + 1, 0)
endOfDesiredMonthOf(date, amount) ==
    MakeLocal(getFullYear(date), getMonth(date) + amount + 1, 0, getHours(date))

\* the day of the month is kept unless the desired month is shorter
addMonths_clamped(date, endOfDesiredMonth) ==
    IF getDate(date) >= getDate(endOfDesiredMonth) THEN endOfDesiredMonth
    ELSE MakeLocal(getFullYear(endOfDesiredMonth), getMonth(endOfDesiredMonth),
                   getDate(date), getHours(date))

addMonths(date, amount) ==
    IF amount = 0 THEN date
    ELSE addMonths_clamped(date, endOfDesiredMonthOf(date, amount))

\* the last day is not full when moving dateLeft back by the difference passes dateRight
differenceInDays_result(dateLeft, dateRight, sign, difference) ==
    LET moved == setDate(dateLeft, getDate(dateLeft) - sign * difference)
        isLastDayNotFull == IF compareLocalAsc(moved, dateRight) = 0 - sign THEN 1 ELSE 0
    IN  sign * (difference - isLastDayNotFull)

differenceInDays(dateLeft, dateRight) ==
    differenceInDays_result(dateLeft, dateRight,
                            compareLocalAsc(dateLeft, dateRight),
                            Abs(differenceInCalendarDays(dateLeft, dateRight)))

isLastDayOfMonth(date) == CivilFromDays(LocalDayNumber(date) + 1).date = 1

differenceInCalendarYears(dateLeft, dateRight) == getFullYear(dateLeft) - getFullYear(dateRight)
differenceInCalendarMonths(dateLeft, dateRight) ==
    differenceInCalendarYears(dateLeft, dateRight) * 12 + (getMonth(dateLeft) - getMonth(dateRight))

\* if (dateLeft.getMonth() === 1 && dateLeft.getDate() > 27) dateLeft.setDate(30)
differenceInMonths_february(dateLeft) ==
    IF getMonth(dateLeft) = 1 /\ getDate(dateLeft) > 27 THEN setDate(dateLeft, 30)
    ELSE dateLeft

\* dateLeft.setMonth(dateLeft.getMonth() - sign * difference), then the last month is
\* not full when the moved date passes dateRight
differenceInMonths_result(dateLeft, dateRight, workingLeft, sign, difference) ==
    LET notFull ==
            compareAsc(setMonth(workingLeft, getMonth(workingLeft) - sign * difference),
                       dateRight) = 0 - sign
        isLastMonthNotFull ==
            IF isLastDayOfMonth(dateLeft) /\ difference = 1 /\ compareAsc(dateLeft, dateRight) = 1
            THEN FALSE
            ELSE notFull
    IN  IF difference < 1 THEN 0
        ELSE sign * (difference - (IF isLastMonthNotFull THEN 1 ELSE 0))

differenceInMonths(dateLeft, dateRight) ==
    differenceInMonths_result(dateLeft, dateRight,
                              differenceInMonths_february(dateLeft),
                              compareAsc(dateLeft, dateRight),
                              Abs(differenceInCalendarMonths(dateLeft, dateRight)))

\* both dates are moved to the leap year 1584 before they are compared
differenceInYears_result(dateLeft, dateRight, sign, difference) ==
    LET isLastYearNotFull ==
            IF compareAsc(setFullYear(dateLeft, 1584), setFullYear(dateRight, 1584)) = 0 - sign
            THEN 1 ELSE 0
    IN  sign * (difference - isLastYearNotFull)

differenceInYears(dateLeft, dateRight) ==
    differenceInYears_result(dateLeft, dateRight,
                             compareAsc(dateLeft, dateRight),
                             Abs(differenceInCalendarYears(dateLeft, dateRight)))

\* intervalToDuration({ start, end }), the fields the engine reads: each step takes
\* what the steps before it computed
intervalToDuration_days(end, remainingMonths, years, months) ==
    [years |-> years, months |-> months,
     days |-> differenceInDays(end, addMonths(remainingMonths, months))]

intervalToDuration_months(end, remainingMonths, years) ==
    intervalToDuration_days(end, remainingMonths, years,
                            differenceInMonths(end, remainingMonths))

intervalToDuration_years(start, end, years) ==
    intervalToDuration_months(end, addMonths(start, years * 12), years)

intervalToDuration(start, end) ==
    intervalToDuration_years(start, end, differenceInYears(end, start))

(***************************************************************************)
(* The TypeScript engine (domain/age/utils.ts).  A function that can throw *)
(* returns Ok(value) or Throw(message); Number.isFinite and instanceof     *)
(* checks are not modelled, every number of the model being finite and     *)
(* every Date valid.                                                       *)
(***************************************************************************)
Ok(v) == [status |-> "ok", value |-> v]
Throw(message) == [status |-> "error", error |-> message]

\* a toDaysFromWeeksDays that carries days above 6 over into the weeks
toDaysFromWeeksDays_carried(weeksDays) ==
    IF weeksDays.days < 0 THEN Throw("Days must be in [0..6]")
    ELSE IF weeksDays.weeks < 0 THEN Throw("Weeks must be non-negative")
    ELSE Ok(weeksDays.weeks * 7 + weeksDays.days)

toDaysFromWeeksDays(weeksDays) ==
    IF weeksDays.days < 0 \/ weeksDays.days > 6 THEN Throw("Days must be in [0..6]")
    ELSE IF weeksDays.weeks < 0 THEN Throw("Weeks must be non-negative")
    ELSE Ok(weeksDays.weeks * 7 + weeksDays.days)

toWeeksDaysFromDays(totalDays) ==
    IF totalDays < 0 THEN Throw("totalDays must be a non-negative finite number")
    ELSE Ok([weeks |-> totalDays \div 7, days |-> totalDays % 7])

toUtcStartOfDay(date) ==
    DateUTC(getUTCFullYear(date), getUTCMonth(date), getUTCDate(date))

\* a calcPnaDays that returns a negative difference instead of throwing
calcPnaDays_unchecked(birth, assessment) ==
    Ok(differenceInCalendarDays(toUtcStartOfDay(assessment), toUtcStartOfDay(birth)))

calcPnaDays(birth, assessment) ==
    LET birthUtc == toUtcStartOfDay(birth)
        assessmentUtc == toUtcStartOfDay(assessment)
        diff == differenceInCalendarDays(assessmentUtc, birthUtc)
    IN  IF diff < 0 THEN Throw("Assessment date must be on or after birth date")
        ELSE Ok(diff)

\* a calcPmaDays that adds the gestational age as if it were given in weeks
calcPmaDays_weeksForDays(gaBirthDays, pnaDays) ==
    IF gaBirthDays < 0 THEN Throw("gaBirthDays must be non-negative")
    ELSE IF pnaDays < 0 THEN Throw("pnaDays must be non-negative")
    ELSE Ok(gaBirthDays * 7 + pnaDays)

calcPmaDays(gaBirthDays, pnaDays) ==
    IF gaBirthDays < 0 THEN Throw("gaBirthDays must be non-negative")
    ELSE IF pnaDays < 0 THEN Throw("pnaDays must be non-negative")
    ELSE Ok(gaBirthDays + pnaDays)

\* a calcCorrectionDays that takes the distance to term instead of flooring it at zero
calcCorrectionDays_distance(gaBirthDays, termWeeks) ==
    IF gaBirthDays < 0 THEN Throw("gaBirthDays must be non-negative")
    ELSE IF termWeeks <= 0 THEN Throw("termWeeks must be positive")
    ELSE LET termDays == termWeeks * 7
         IN  Ok(Abs(termDays - gaBirthDays))

calcCorrectionDays(gaBirthDays, termWeeks) ==
    IF gaBirthDays < 0 THEN Throw("gaBirthDays must be non-negative")
    ELSE IF termWeeks <= 0 THEN Throw("termWeeks must be positive")
    ELSE LET termDays == termWeeks * 7
         IN  Ok(Max(0, termDays - gaBirthDays))

\* a calcCorrectedAgeDays that leaves the correction out
calcCorrectedAgeDays_uncorrected(pnaDays, correctionDays) ==
    IF pnaDays < 0 THEN Throw("pnaDays must be non-negative")
    ELSE IF correctionDays < 0 THEN Throw("correctionDays must be non-negative")
    ELSE Ok(pnaDays)

calcCorrectedAgeDays(pnaDays, correctionDays) ==
    IF pnaDays < 0 THEN Throw("pnaDays must be non-negative")
    ELSE IF correctionDays < 0 THEN Throw("correctionDays must be non-negative")
    ELSE Ok(Max(0, pnaDays - correctionDays))

ZeroBreakdown == [years |-> 0, months |-> 0, weeks |-> 0, days |-> 0]

\* the years, months, weeks and days of a duration: the days are split in weeks and days
calendarBreakdownOf(duration) ==
    [years |-> duration.years, months |-> duration.months,
     weeks |-> duration.days \div 7, days |-> duration.days % 7]

\* a breakdown without the check for a reversed interval
calendarBreakdownBetween_unguarded(start, end) ==
    calendarBreakdownOf(intervalToDuration(start, end))

\* the breakdown of the interval, all zero when the interval is reversed
calendarBreakdownBetween(start, end) ==
    IF end < start THEN ZeroBreakdown
    ELSE calendarBreakdownOf(intervalToDuration(start, end))

calcCalendarBreakdownFromCorrected(birth, correctionDays, assessment) ==
    calendarBreakdownBetween(addDays(toUtcStartOfDay(birth), correctionDays),
                             toUtcStartOfDay(assessment))

calcCalendarBreakdownFromBirth(birth, assessment) ==
    calendarBreakdownBetween(toUtcStartOfDay(birth), toUtcStartOfDay(assessment))

validateGestationalAge(ga) ==
    IF ga.weeks < 22 \/ ga.weeks > 42 THEN Throw("Gestational age weeks must be in [22..42]")
    ELSE IF ga.days < 0 \/ ga.days > 6 THEN Throw("Gestational age days must be in [0..6]")
    ELSE Ok(TRUE)

\* a correction that is applied whatever the useCorrection switch says
correctionDaysOf_switchIgnored(correctionEnabled, gaBirthDays) ==
    calcCorrectionDays(gaBirthDays, 40)

\* const correctionDays = inputs.useCorrection ? calcCorrectionDays(gaBirthDays, 40) : 0
correctionDaysOf(correctionEnabled, gaBirthDays) ==
    IF correctionEnabled THEN calcCorrectionDays(gaBirthDays, 40) ELSE Ok(0)

\* an isPremature that counts 37w0d as premature
isPrematureOf_through37(gaBirthWeeks) == gaBirthWeeks.num <= 37 * gaBirthWeeks.den

\* const isPremature = gaBirthWeeks < 37, on the fraction num / den
isPrematureOf(gaBirthWeeks) == gaBirthWeeks.num < 37 * gaBirthWeeks.den

\* gaBirthWeeks = weeks + days / 7 is kept as the exact fraction num / den
computeCalculatorResults(inputs) ==
    LET pnaDays == calcPnaDays(inputs.birthDate, inputs.assessmentDate) IN
    IF pnaDays.status # "ok" THEN pnaDays ELSE
    LET gaBirthDays == toDaysFromWeeksDays(inputs.gaBirth) IN
    IF gaBirthDays.status # "ok" THEN gaBirthDays ELSE
    LET pmaDays == calcPmaDays(gaBirthDays.value, pnaDays.value) IN
    IF pmaDays.status # "ok" THEN pmaDays ELSE
    LET correctionDays == correctionDaysOf(inputs.useCorrection, gaBirthDays.value) IN
    IF correctionDays.status # "ok" THEN correctionDays ELSE
    LET correctedDays == calcCorrectedAgeDays(pnaDays.value, correctionDays.value) IN
    IF correctedDays.status # "ok" THEN correctedDays ELSE
    LET correctedWeeksDays == toWeeksDaysFromDays(correctedDays.value) IN
    IF correctedWeeksDays.status # "ok" THEN correctedWeeksDays ELSE
    LET correctedCalendar == calcCalendarBreakdownFromCorrected(
                                 inputs.birthDate, correctionDays.value, inputs.assessmentDate)
        pnaCalendar == calcCalendarBreakdownFromBirth(inputs.birthDate, inputs.assessmentDate)
        gaBirthWeeks == [num |-> inputs.gaBirth.weeks * 7 + inputs.gaBirth.days, den |-> 7]
        isPremature == isPrematureOf(gaBirthWeeks)
        isCorrectionApplied == inputs.useCorrection /\ correctionDays.value > 0
        correctionRecommendedUntilMonths == 24
        pnaWeeksDays == toWeeksDaysFromDays(pnaDays.value)
        pma == toWeeksDaysFromDays(pmaDays.value)
    IN  IF pnaWeeksDays.status # "ok" THEN pnaWeeksDays
        ELSE IF pma.status # "ok" THEN pma
        ELSE Ok([pna |-> [weeksDays |-> pnaWeeksDays.value, calendar |-> pnaCalendar],
                 pnaDays |-> pnaDays.value,
                 pma |-> pma.value,
                 pmaDays |-> pmaDays.value,
                 corrected |-> [weeksDays |-> correctedWeeksDays.value,
                                days |-> correctedDays.value,
                                calendar |-> correctedCalendar],
                 metadata |-> [isCorrectionApplied |-> isCorrectionApplied,
                               isPremature |-> isPremature,
                               correctionRecommendedUntilMonths |-> correctionRecommendedUntilMonths,
                               gaBirthWeeks |-> gaBirthWeeks]])

(***************************************************************************)
(* The JavaScript engine: Utils (js/utils.js) and AgeCalculator            *)
(* (js/calculator.js).  Display strings are left out of the age results.   *)
(***************************************************************************)
\* a daysBetween that counts both end days
Utils_daysBetween_inclusive(date1, date2) ==
    LET timeDiff == date2 - date1
    IN  timeDiff \div MS_PER_DAY + 1

Utils_daysBetween(date1, date2) ==
    LET timeDiff == date2 - date1
    IN  timeDiff \div MS_PER_DAY

\* a daysToWeeksAndDays that puts the sign on the weeks only
Utils_daysToWeeksAndDays_signOnWeeks(totalDays) ==
    LET weeks == Abs(totalDays) \div 7
        days == Abs(totalDays) % 7
    IN  [weeks |-> IF totalDays < 0 THEN 0 - weeks ELSE weeks,
         days |-> days,
         totalDays |-> totalDays]

\* a Utils.daysToWeeksAndDays that rounds the weeks down and keeps the days positive
Utils_daysToWeeksAndDays_roundedDown(totalDays) ==
    [weeks |-> totalDays \div 7, days |-> totalDays % 7, totalDays |-> totalDays]

Utils_daysToWeeksAndDays(totalDays) ==
    LET weeks == Abs(totalDays) \div 7
        days == Abs(totalDays) % 7
    IN  [weeks |-> IF totalDays < 0 THEN 0 - weeks ELSE weeks,
         days |-> IF totalDays < 0 /\ days > 0 THEN 0 - days ELSE days,
         totalDays |-> totalDays]

\* avgDaysPerMonth = 30.44: floor(|d| / 30.44) = floor(100 |d| / 3044); the remainder
\* days are rounded display values and are not read by the engine's results
Utils_daysToMonthsAndDays(totalDays) ==
    LET months == (Abs(totalDays) * 100) \div 3044
    IN  [months |-> IF totalDays < 0 THEN 0 - months ELSE months,
         totalDays |-> totalDays]

\* avgDaysPerYear = 365.25: floor(|d| / 365.25) = floor(100 |d| / 36525)
Utils_daysToYearsMonthsDays(totalDays) ==
    LET years == (Abs(totalDays) * 100) \div 36525
    IN  [years |-> IF totalDays < 0 THEN 0 - years ELSE years,
         totalDays |-> totalDays]

formatAgeResult(totalDays) ==
    LET weeksData == Utils_daysToWeeksAndDays(totalDays)
        monthsData == Utils_daysToMonthsAndDays(totalDays)
        yearsData == Utils_daysToYearsMonthsDays(totalDays)
    IN  [totalDays |-> totalDays,
         weeks |-> weeksData.weeks,
         days |-> weeksData.days,
         months |-> monthsData.months,
         years |-> yearsData.years]

calculateTermEquivalentDate(birth, gestationalAge) ==
    LET fullTermDays == 40 * 7
        daysToTerm == fullTermDays - gestationalAge.totalDays
    IN  setDate(birth, getDate(birth) + daysToTerm)

calculateChronologicalAge(birth, current) ==
    LET totalDays == Utils_daysBetween(birth, current)
        age == formatAgeResult(totalDays)
    IN  [totalDays |-> age.totalDays, weeks |-> age.weeks, days |-> age.days,
         months |-> age.months, years |-> age.years,
         type |-> "chronological"]

\* a calculateCorrectedAge that floors the prematurity offset at zero
calculateCorrectedAge_offsetFloored(birth, gestationalAge, current) ==
    LET chronologicalDays == Utils_daysBetween(birth, current)
        fullTermDays == 40 * 7
        prematurityOffset == Max(0, fullTermDays - gestationalAge.totalDays)
        correctedDays == chronologicalDays - prematurityOffset
        age == formatAgeResult(correctedDays)
    IN  [totalDays |-> age.totalDays, weeks |-> age.weeks, days |-> age.days,
         months |-> age.months, years |-> age.years,
         type |-> "corrected",
         prematurityOffset |-> prematurityOffset,
         isNegative |-> correctedDays < 0,
         wouldReachTermAt |-> calculateTermEquivalentDate(birth, gestationalAge)]

\* a calculateCorrectedAge that floors the corrected age at zero
calculateCorrectedAge_clamped(birth, gestationalAge, current) ==
    LET chronologicalDays == Utils_daysBetween(birth, current)
        fullTermDays == 40 * 7
        prematurityOffset == fullTermDays - gestationalAge.totalDays
        correctedDays == Max(0, chronologicalDays - prematurityOffset)
        age == formatAgeResult(correctedDays)
    IN  [totalDays |-> age.totalDays, weeks |-> age.weeks, days |-> age.days,
         months |-> age.months, years |-> age.years,
         type |-> "corrected",
         prematurityOffset |-> prematurityOffset,
         isNegative |-> correctedDays < 0,
         wouldReachTermAt |-> calculateTermEquivalentDate(birth, gestationalAge)]

calculateCorrectedAge(birth, gestationalAge, current) ==
    LET chronologicalDays == Utils_daysBetween(birth, current)
        fullTermDays == 40 * 7
        prematurityOffset == fullTermDays - gestationalAge.totalDays
        correctedDays == chronologicalDays - prematurityOffset
        age == formatAgeResult(correctedDays)
    IN  [totalDays |-> age.totalDays, weeks |-> age.weeks, days |-> age.days,
         months |-> age.months, years |-> age.years,
         type |-> "corrected",
         prematurityOffset |-> prematurityOffset,
         isNegative |-> correctedDays < 0,
         wouldReachTermAt |-> calculateTermEquivalentDate(birth, gestationalAge)]

\* a calculatePostmenstrualAge that is term-equivalent only after 40 weeks
calculatePostmenstrualAge_afterTerm(birth, gestationalAge, current) ==
    LET chronologicalDays == Utils_daysBetween(birth, current)
        pmaDays == gestationalAge.totalDays + chronologicalDays
        age == formatAgeResult(pmaDays)
        fullTermDays == 40 * 7
        isTermEquivalent == pmaDays > fullTermDays
        daysToTerm == IF isTermEquivalent THEN 0 ELSE fullTermDays - pmaDays
    IN  [totalDays |-> age.totalDays, weeks |-> age.weeks, days |-> age.days,
         months |-> age.months, years |-> age.years,
         type |-> "postmenstrual",
         isTermEquivalent |-> isTermEquivalent,
         daysToTerm |-> daysToTerm,
         termDate |-> calculateTermEquivalentDate(birth, gestationalAge)]

\* a calculatePostmenstrualAge that counts the completed weeks of gestation only
calculatePostmenstrualAge_weeksOnly(birth, gestationalAge, current) ==
    LET chronologicalDays == Utils_daysBetween(birth, current)
        pmaDays == (gestationalAge.weeks * 7) + chronologicalDays
        age == formatAgeResult(pmaDays)
        fullTermDays == 40 * 7
        isTermEquivalent == pmaDays >= fullTermDays
        daysToTerm == IF isTermEquivalent THEN 0 ELSE fullTermDays - pmaDays
    IN  [totalDays |-> age.totalDays, weeks |-> age.weeks, days |-> age.days,
         months |-> age.months, years |-> age.years,
         type |-> "postmenstrual",
         isTermEquivalent |-> isTermEquivalent,
         daysToTerm |-> daysToTerm,
         termDate |-> calculateTermEquivalentDate(birth, gestationalAge)]

calculatePostmenstrualAge(birth, gestationalAge, current) ==
    LET chronologicalDays == Utils_daysBetween(birth, current)
        pmaDays == gestationalAge.totalDays + chronologicalDays
        age == formatAgeResult(pmaDays)
        fullTermDays == 40 * 7
        isTermEquivalent == pmaDays >= fullTermDays
        daysToTerm == IF isTermEquivalent THEN 0 ELSE fullTermDays - pmaDays
    IN  [totalDays |-> age.totalDays, weeks |-> age.weeks, days |-> age.days,
         months |-> age.months, years |-> age.years,
         type |-> "postmenstrual",
         isTermEquivalent |-> isTermEquivalent,
         daysToTerm |-> daysToTerm,
         termDate |-> calculateTermEquivalentDate(birth, gestationalAge)]

getDevelopmentalStage(correctedDays) ==
    IF correctedDays < 0 THEN "Pre-term equivalent (before due date)"
    ELSE IF correctedDays < 28 THEN "Newborn (0-4 weeks corrected)"
    ELSE IF correctedDays < 84 THEN "Young infant (1-3 months corrected)"
    ELSE IF correctedDays < 180 THEN "Older infant (3-6 months corrected)"
    ELSE IF correctedDays < 365 THEN "Mobile infant (6-12 months corrected)"
    ELSE IF correctedDays < 730 THEN "Toddler (1-2 years corrected)"
    ELSE "Preschooler (2+ years corrected)"

\* a getPrematurityLevel whose late preterm tier starts a week early
getPrematurityLevel_lateFrom33(gestationalWeeks) ==
    IF gestationalWeeks < 24 THEN "Periviable (extremely high risk)"
    ELSE IF gestationalWeeks < 28 THEN "Extremely preterm"
    ELSE IF gestationalWeeks < 32 THEN "Very preterm"
    ELSE IF gestationalWeeks < 33 THEN "Moderate preterm"
    ELSE IF gestationalWeeks < 37 THEN "Late preterm"
    ELSE IF gestationalWeeks <= 42 THEN "Term"
    ELSE "Post-term"

getPrematurityLevel(gestationalWeeks) ==
    IF gestationalWeeks < 24 THEN "Periviable (extremely high risk)"
    ELSE IF gestationalWeeks < 28 THEN "Extremely preterm"
    ELSE IF gestationalWeeks < 32 THEN "Very preterm"
    ELSE IF gestationalWeeks < 34 THEN "Moderate preterm"
    ELSE IF gestationalWeeks < 37 THEN "Late preterm"
    ELSE IF gestationalWeeks <= 42 THEN "Term"
    ELSE "Post-term"

\* a getCorrectionRelevance that does not look for a birth at term
getCorrectionRelevance_termIgnored(chronologicalDays, gestationalWeeks) ==
    IF chronologicalDays > 2 * 365 THEN "Decreasing relevance (consider chronological age)"
    ELSE IF gestationalWeeks < 32 THEN "Highly relevant for development assessment"
    ELSE "Moderately relevant for early development"

getCorrectionRelevance(chronologicalDays, gestationalWeeks) ==
    IF gestationalWeeks >= 37 THEN "Limited relevance (born at term)"
    ELSE IF chronologicalDays > 2 * 365 THEN "Decreasing relevance (consider chronological age)"
    ELSE IF gestationalWeeks < 32 THEN "Highly relevant for development assessment"
    ELSE "Moderately relevant for early development"

getMilestoneGuidance(correctedDays, gestationalWeeks) ==
    IF correctedDays < 0 THEN "Focus on basic physiological stability and growth"
    ELSE IF correctedDays < 84 THEN "Use corrected age for all developmental milestones"
    ELSE IF correctedDays < 730
         THEN IF gestationalWeeks < 32
              THEN "Use corrected age, but consider individual development patterns"
              ELSE "Use corrected age for major milestones, chronological for social development"
    ELSE "Transition to using chronological age for most assessments"

\* a getTermStatus that is still pre-term at exactly 40 weeks
getTermStatus_throughTerm(postmenstrual) ==
    LET fullTermDays == 40 * 7
    IN  IF postmenstrual.totalDays <= fullTermDays
        THEN [status |-> "pre-term",
              weeks |-> (fullTermDays - postmenstrual.totalDays) \div 7,
              days |-> (fullTermDays - postmenstrual.totalDays) % 7,
              timeToTerm |-> fullTermDays - postmenstrual.totalDays]
        ELSE [status |-> "term-equivalent",
              weeks |-> (postmenstrual.totalDays - fullTermDays) \div 7,
              days |-> (postmenstrual.totalDays - fullTermDays) % 7,
              timeSinceTerm |-> postmenstrual.totalDays - fullTermDays]

getTermStatus(postmenstrual) ==
    LET fullTermDays == 40 * 7
    IN  IF postmenstrual.totalDays < fullTermDays
        THEN [status |-> "pre-term",
              weeks |-> (fullTermDays - postmenstrual.totalDays) \div 7,
              days |-> (fullTermDays - postmenstrual.totalDays) % 7,
              timeToTerm |-> fullTermDays - postmenstrual.totalDays]
        ELSE [status |-> "term-equivalent",
              weeks |-> (postmenstrual.totalDays - fullTermDays) \div 7,
              days |-> (postmenstrual.totalDays - fullTermDays) % 7,
              timeSinceTerm |-> postmenstrual.totalDays - fullTermDays]

\* the recommendations are named by their topic, in the order they are pushed
generateRecommendations(insights, chronological, corrected, gestationalAge) ==
    (IF chronological.totalDays > 3 * 365 THEN <<"transition-to-chronological">> ELSE <<>>)
    \o (IF gestationalAge.weeks < 28 THEN <<"neurodevelopmental-follow-up">> ELSE <<>>)
    \o (IF corrected.totalDays < 0 THEN <<"negative-corrected-age">> ELSE <<>>)
    \o (IF corrected.totalDays >= 0 /\ corrected.totalDays < 365
        THEN <<"corrected-age-first-year">> ELSE <<>>)
    \o (IF gestationalAge.weeks < 32 /\ chronological.totalDays < 365
        THEN <<"regular-follow-up">> ELSE <<>>)

generateInsights(chronological, corrected, postmenstrual, gestationalAge) ==
    LET insights == [developmentalStage |-> getDevelopmentalStage(corrected.totalDays),
                     prematurityLevel |-> getPrematurityLevel(gestationalAge.weeks),
                     correctionRelevance |->
                         getCorrectionRelevance(chronological.totalDays, gestationalAge.weeks),
                     milestoneGuidance |->
                         getMilestoneGuidance(corrected.totalDays, gestationalAge.weeks),
                     termStatus |-> getTermStatus(postmenstrual),
                     recommendations |-> <<>>]
    IN  [insights EXCEPT !.recommendations =
             generateRecommendations(insights, chronological, corrected, gestationalAge)]

calculateAllAges(birth, gestationalAge, current) ==
    LET chronological == calculateChronologicalAge(birth, current)
        corrected == calculateCorrectedAge(birth, gestationalAge, current)
        postmenstrual == calculatePostmenstrualAge(birth, gestationalAge, current)
        insights == generateInsights(chronological, corrected, postmenstrual, gestationalAge)
    IN  Ok([chronological |-> chronological,
            corrected |-> corrected,
            postmenstrual |-> postmenstrual,
            insights |-> insights,
            calculationDate |-> current,
            birthDate |-> birth,
            gestationalAge |-> gestationalAge])

\* the gestational age object built by Validation.validateGestationalAge
GestationalAgeValue(weeksNum, daysNum) ==
    [weeks |-> weeksNum, days |-> daysNum, totalDays |-> (weeksNum * 7) + daysNum]

(***************************************************************************)
(* The input contracts in front of the engines: the zod schemas of the     *)
(* React form (domain/age/schemas.ts) and Validation.validateGestationalAge*)
(* of the JavaScript form (js/validation.js).                              *)
(***************************************************************************)
\* the issues of the gestational age, as <<field, message>>
GestationalAgeSchema(ga) ==
    (IF ga.weeks < 22 THEN {<<"weeks", "GA weeks must be >= 22">>} ELSE {})
    \cup (IF ga.weeks > 42 THEN {<<"weeks", "GA weeks must be <= 42">>} ELSE {})
    \cup (IF ga.days < 0 THEN {<<"days", "GA days must be >= 0">>} ELSE {})
    \cup (IF ga.days > 6 THEN {<<"days", "GA days must be <= 6">>} ELSE {})

\* the issues the schema reports, as <<path, message>>, a path being a sequence of keys
CalculatorInputsSchema(data) ==
    LET birthUtc == toUtcStartOfDay(data.birthDate)
        assessUtc == toUtcStartOfDay(data.assessmentDate)
        diffDays == differenceInCalendarDays(assessUtc, birthUtc)
    IN  {<<<<"gaBirth", i[1]>>, i[2]>> : i \in GestationalAgeSchema(data.gaBirth)}
        \cup (IF assessUtc < birthUtc
              THEN {<<<<"assessmentDate">>, "assessmentDate must be on or after birthDate">>}
              ELSE {})
        \cup (IF diffDays > 365 * 10
              THEN {<<<<"assessmentDate">>, "assessmentDate must be within 10 years of birthDate">>}
              ELSE {})

\* a Validation.validateGestationalAge whose upper limit is below 44 weeks
Validation_validateGestationalAge_below44(weeksNum, daysNum) ==
    IF weeksNum < 0 \/ daysNum < 0 \/ weeksNum < 20 \/ weeksNum >= 44 \/ daysNum > 6
    THEN [isValid |-> FALSE, error |-> "Gestational age cannot exceed 44 weeks", warning |-> ""]
    ELSE [isValid |-> TRUE, error |-> "", warning |-> "",
          value |-> [weeks |-> weeksNum, days |-> daysNum, totalDays |-> (weeksNum * 7) + daysNum]]

Validation_validateGestationalAge(weeksNum, daysNum) ==
    LET invalid(message) == [isValid |-> FALSE, error |-> message, warning |-> ""]
        warning ==
            IF weeksNum < 24 THEN "Very preterm infant (<24 weeks)"
            ELSE IF weeksNum < 28 THEN "Extremely preterm infant (24-28 weeks)"
            ELSE IF weeksNum < 32 THEN "Very preterm infant (28-32 weeks)"
            ELSE IF weeksNum >= 42 THEN "Post-term infant (>=42 weeks)"
            ELSE ""
        totalDays == (weeksNum * 7) + daysNum
    IN  IF weeksNum < 0 THEN invalid("Gestational weeks must be a valid number")
        ELSE IF daysNum < 0 THEN invalid("Gestational days must be a valid number")
        ELSE IF weeksNum < 20 THEN invalid("Gestational age must be at least 20 weeks (limit of viability)")
        ELSE IF weeksNum > 44 THEN invalid("Gestational age cannot exceed 44 weeks")
        ELSE IF daysNum > 6 THEN invalid("Gestational days must be between 0 and 6")
        ELSE IF totalDays > 44 * 7
             THEN [isValid |-> FALSE,
                   error |-> "Total gestational age cannot exceed 44 weeks and 0 days",
                   warning |-> warning]
        ELSE [isValid |-> TRUE, error |-> "", warning |-> warning,
              value |-> GestationalAgeValue(weeksNum, daysNum)]

\* Utils.getToday: new Date(today.getFullYear(), today.getMonth(), today.getDate())
Utils_getToday(now) == MakeLocal(getFullYear(now), getMonth(now), getDate(now), 0)

\* Validation.validateCurrentDate(dateString, birthDate), date being the parsed
\* dateString and now the clock; a birth date is always given
Validation_validateCurrentDate(date, birth, now) ==
    LET oneYearFromNow == setFullYear(now, getFullYear(now) + 1)
    IN  IF date < birth
        THEN [isValid |-> FALSE, warning |-> "",
              error |-> "Calculation date cannot be before birth date"]
        ELSE IF date > oneYearFromNow
        THEN [isValid |-> FALSE, warning |-> "",
              error |-> "Calculation date cannot be more than one year in the future"]
        ELSE [isValid |-> TRUE, error |-> "", value |-> date,
              warning |-> IF date > Utils_getToday(now)
                          THEN "Calculation date is in the future. Results will be projected ages."
                          ELSE ""]

\* The text of a date field of the JavaScript form: empty, a text that is no date, or
\* the YYYY-MM-DD text of a calendar day
EmptyText == [kind |-> "empty"]
OtherText == [kind |-> "text"]
DateText(dayNumber) == [kind |-> "date", day |-> dayNumber]

\* Utils.parseDate of a YYYY-MM-DD text: new Date(dateString + 'T00:00:00')
Utils_parseDate(dateString) == LocalDate(tz, dateString.day, 0)

\* the warning of Validation.validateBirthDate for a birth date that is not in the future
Validation_validateBirthDate_warning(date, today, fiveYearsAgo, twentyWeeksAgo) ==
    IF date > twentyWeeksAgo
    THEN "Infant is only " \o ToString(Utils_daysBetween(date, today) \div 7)
         \o " weeks old. Please ensure gestational age is accurate for very young infants."
    ELSE IF date < fiveYearsAgo
    THEN "Birth date is more than 5 years ago. Corrected age is typically only used for the first 2-3 years of life."
    ELSE ""

\* Validation.validateBirthDate(dateString), instant being the clock
Validation_validateBirthDate(dateString, instant) ==
    IF dateString.kind = "empty"
    THEN [isValid |-> FALSE, error |-> "Birth date is required", warning |-> ""]
    ELSE IF dateString.kind # "date"
    THEN [isValid |-> FALSE, warning |-> "",
          error |-> "Please enter a valid date in YYYY-MM-DD format"]
    ELSE IF Utils_parseDate(dateString) > Utils_getToday(instant)
    THEN [isValid |-> FALSE, error |-> "Birth date cannot be in the future", warning |-> ""]
    ELSE [isValid |-> TRUE, error |-> "", value |-> Utils_parseDate(dateString),
          warning |-> Validation_validateBirthDate_warning(
                          Utils_parseDate(dateString), Utils_getToday(instant),
                          setFullYear(instant, getFullYear(instant) - 5),
                          setDate(instant, getDate(instant) - (20 * 7)))]

\* Validation.validateCurrentDate(dateString, birthDate) as validateAllInputs calls
\* it: with the validated birth date, or with null (no comparison with the birth
\* date: the date is compared with itself) when the birth date is not valid
Validation_validateCurrentDateText(dateString, birthDateResult, instant) ==
    IF dateString.kind = "empty"
    THEN [isValid |-> TRUE, error |-> "", warning |-> "", value |-> Utils_getToday(instant)]
    ELSE IF dateString.kind # "date"
    THEN [isValid |-> FALSE, warning |-> "",
          error |-> "Please enter a valid date in YYYY-MM-DD format"]
    ELSE Validation_validateCurrentDate(
             Utils_parseDate(dateString),
             IF birthDateResult.isValid THEN birthDateResult.value
                                        ELSE Utils_parseDate(dateString),
             instant)

\* the warning of Validation.performCrossValidation (its error is always empty):
\* the last of the checks that applies
performCrossValidation_warning(chronologicalDays, gestationalAge) ==
    IF gestationalAge.weeks < 28 /\ chronologicalDays < 7
    THEN "Very preterm infant in first week of life. Clinical interpretation requires specialized neonatal expertise."
    ELSE IF chronologicalDays - ((40 * 7) - gestationalAge.totalDays) < -140
    THEN "Corrected age is very negative (more than 20 weeks). Ensure all inputs are correct."
    ELSE IF gestationalAge.weeks >= 37 /\ chronologicalDays < 14
    THEN "Infant was born at term or near-term. Corrected age may not be clinically relevant."
    ELSE IF chronologicalDays > 3 * 365
    THEN "Corrected age is typically only used for the first 2-3 years of life. Consider using chronological age for older children."
    ELSE ""

\* a performCrossValidation that reports a term infant under 14 days as an error
performCrossValidation_termRejected(birth, gestationalAge, current) ==
    [error |-> IF gestationalAge.weeks >= 37 /\ Utils_daysBetween(birth, current) < 14
               THEN "Infant was born at term or near-term. Corrected age may not be clinically relevant."
               ELSE "",
     warning |-> performCrossValidation_warning(Utils_daysBetween(birth, current),
                                                gestationalAge)]

performCrossValidation(birth, gestationalAge, current) ==
    [error |-> "",
     warning |-> performCrossValidation_warning(Utils_daysBetween(birth, current),
                                                gestationalAge)]

\* results.errors.push / results.warnings.push of a text that is not empty
PushText(list, text) == IF text = "" THEN list ELSE Append(list, text)

\* a validateAllInputs whose isValid does not look at the gestational age
validateAllInputs_results_datesOnly(birthDateResult, gestationalAgeResult, currentDateResult, crossValidation) ==
    [birthDate |-> birthDateResult,
     gestationalAge |-> gestationalAgeResult,
     currentDate |-> currentDateResult,
     isValid |-> /\ birthDateResult.isValid /\ currentDateResult.isValid
                 /\ crossValidation.error = "",
     errors |-> PushText(PushText(PushText(PushText(<<>>,
                    birthDateResult.error), gestationalAgeResult.error),
                    currentDateResult.error), crossValidation.error),
     warnings |-> PushText(PushText(PushText(PushText(<<>>,
                      birthDateResult.warning), gestationalAgeResult.warning),
                      currentDateResult.warning), crossValidation.warning)]

\* Validation.validateAllInputs once the three fields are validated
validateAllInputs_results(birthDateResult, gestationalAgeResult, currentDateResult, crossValidation) ==
    [birthDate |-> birthDateResult,
     gestationalAge |-> gestationalAgeResult,
     currentDate |-> currentDateResult,
     isValid |-> /\ birthDateResult.isValid /\ gestationalAgeResult.isValid
                 /\ currentDateResult.isValid
                 /\ crossValidation.error = "",
     errors |-> PushText(PushText(PushText(PushText(<<>>,
                    birthDateResult.error), gestationalAgeResult.error),
                    currentDateResult.error), crossValidation.error),
     warnings |-> PushText(PushText(PushText(PushText(<<>>,
                      birthDateResult.warning), gestationalAgeResult.warning),
                      currentDateResult.warning), crossValidation.warning)]

\* the cross-validation of validateAllInputs, made only when the three fields are valid
validateAllInputs_cross(birthDateResult, gestationalAgeResult, currentDateResult) ==
    validateAllInputs_results(
        birthDateResult, gestationalAgeResult, currentDateResult,
        IF birthDateResult.isValid /\ gestationalAgeResult.isValid
           /\ currentDateResult.isValid
        THEN performCrossValidation(birthDateResult.value, gestationalAgeResult.value,
                                    currentDateResult.value)
        ELSE [error |-> "", warning |-> ""])

validateAllInputs_dates(birthDateResult, data, instant) ==
    validateAllInputs_cross(
        birthDateResult,
        Validation_validateGestationalAge(data.gestationalWeeks, data.gestationalDays),
        Validation_validateCurrentDateText(data.currentDate, birthDateResult, instant))

\* Validation.validateAllInputs(birthDate, gestationalWeeks, gestationalDays, currentDate),
\* data holding the four arguments and instant being the clock
validateAllInputs(data, instant) ==
    validateAllInputs_dates(Validation_validateBirthDate(data.birthDate, instant),
                            data, instant)

(***************************************************************************)
(* The state machine.  A calculation is a pure function of its inputs: the *)
(* initial states hold the inputs, an action applies one engine to them.   *)
(*   Init      - every gestational age of MinGaWeeks..MaxGaWeeks weeks and *)
(*               0..MaxGaDays days, dates picked as local midnights;       *)
(*   InitGa    - weeks and days of any sign and size, few dates;           *)
(*   InitDates - few gestational ages, dates with a time of day: local     *)
(*               midnight (Utils.parseDate, the date picker), local        *)
(*               evening, and UTC midnight (new Date('2024-02-28')).       *)
(***************************************************************************)
GaInputs == [weeks : MinGaWeeks..MaxGaWeeks, days : 0..MaxGaDays]
\* weeks and days as numbers of any sign, from MaxBelowZero below zero upwards
GaNumbers == [weeks : (0 - MaxBelowZero)..MaxGaWeeks, days : (0 - MaxBelowZero)..MaxGaDays]

LocalMidnights(zone, lastDay) == {LocalDate(zone, BaseDay + d, 0) : d \in 0..lastDay}

DateInputs(zone) ==
    {LocalDate(zone, BaseDay + d, h) : d \in 0..MaxDateDay, h \in TimesOfDay}
    \cup {(BaseDay + d) * 24 : d \in 0..MaxDateDay}

Init ==
    /\ tz \in Zones
    /\ birthDate \in LocalMidnights(tz, MaxBirthDay)
    /\ assessmentDate \in LocalMidnights(tz, MaxDay)
    /\ gaBirth \in GaInputs
    /\ useCorrection \in BOOLEAN
    /\ results = NoResult
    /\ ages = NoResult
    /\ validation = NoResult
    /\ clock = assessmentDate
    /\ formData = NoResult
    /\ state = NoResult
    /\ formState = NoResult

InitDates ==
    /\ tz \in Zones
    /\ birthDate \in DateInputs(tz)
    /\ assessmentDate \in DateInputs(tz)
    /\ gaBirth \in {[weeks |-> 39, days |-> 3], [weeks |-> 41, days |-> 0]}
    /\ useCorrection \in BOOLEAN
    /\ results = NoResult
    /\ ages = NoResult
    /\ validation = NoResult
    /\ clock = assessmentDate
    /\ formData = NoResult
    /\ state = NoResult
    /\ formState = NoResult

InitGa ==
    /\ tz \in Zones
    /\ birthDate = LocalDate(tz, BaseDay, 0)
    /\ assessmentDate \in LocalMidnights(tz, MaxAgeDays)
    /\ gaBirth \in GaNumbers
    /\ useCorrection \in BOOLEAN
    /\ results = NoResult
    /\ ages = NoResult
    /\ validation = NoResult
    /\ clock = assessmentDate
    /\ formData = NoResult
    /\ state = NoResult
    /\ formState = NoResult

\* computeCalculatorResults(inputs)
ComputeCalculatorResults ==
    /\ results' = computeCalculatorResults(
                      [birthDate |-> birthDate, assessmentDate |-> assessmentDate,
                       gaBirth |-> gaBirth, useCorrection |-> useCorrection])
    /\ UNCHANGED <<tz, birthDate, assessmentDate, gaBirth, useCorrection, ages, validation,
                   clock, formData, state, formState>>

\* AgeCalculator.calculateAllAges(birthDate, gestationalAge, currentDate)
CalculateAllAges ==
    /\ ages' = calculateAllAges(birthDate,
                                GestationalAgeValue(gaBirth.weeks, gaBirth.days),
                                assessmentDate)
    /\ UNCHANGED <<tz, birthDate, assessmentDate, gaBirth, useCorrection, results, validation,
                   clock, formData, state, formState>>

\* the validators in front of the engines, each applied to the inputs: the zod schema
\* of the React form, validateGestationalAge of the TypeScript engine, and
\* Validation.validateGestationalAge of the JavaScript form
ValidateInputs ==
    /\ validation' = [status |-> "done",
                      schema |-> CalculatorInputsSchema(
                                     [birthDate |-> birthDate, assessmentDate |-> assessmentDate,
                                      gaBirth |-> gaBirth, useCorrection |-> useCorrection]),
                      gestationalAge |-> validateGestationalAge(gaBirth),
                      form |-> Validation_validateGestationalAge(gaBirth.weeks, gaBirth.days)]
    /\ UNCHANGED <<tz, birthDate, assessmentDate, gaBirth, useCorrection, results, ages,
                   clock, formData, state, formState>>

Next == ComputeCalculatorResults \/ CalculateAllAges
NextGa == ComputeCalculatorResults \/ CalculateAllAges \/ ValidateInputs

Spec == Init /\ [][Next]_vars
SpecDates == InitDates /\ [][Next]_vars
SpecGa == InitGa /\ [][NextGa]_vars

(***************************************************************************)
(* The JavaScript form in front of Validation.validateAllInputs: the clock *)
(* stands on the day FormToday at one of the times of day, the date fields *)
(* hold any text, the number fields any number parseInt gives (a number    *)
(* below zero stands for NaN as well: both take the same branch).          *)
(***************************************************************************)
FormToday == BaseDay + 1
\* a birth more than three years before FormToday
LongAgo == BaseDay - ((3 * 365) + 2)
FormDays == {BaseDay + d : d \in 0..MaxFormDay}
FormInputs ==
    [birthDate : {EmptyText, OtherText} \cup {DateText(d) : d \in FormDays \cup {LongAgo}},
     gestationalWeeks : ((0 - MaxBelowZero)..(0 - 1)) \cup (MinGaWeeks..MaxGaWeeks),
     gestationalDays : (0 - MaxBelowZero)..MaxGaDays,
     currentDate : {EmptyText, OtherText} \cup {DateText(d) : d \in FormDays}]

InitForm ==
    /\ tz \in Zones
    /\ clock \in {LocalDate(tz, FormToday, h) : h \in TimesOfDay}
    /\ formData \in FormInputs
    /\ validation = NoResult
    /\ state = NoResult
    /\ formState = NoResult
    /\ birthDate = clock
    /\ assessmentDate = clock
    /\ gaBirth = [weeks |-> 35, days |-> 0]
    /\ useCorrection = TRUE
    /\ results = NoResult
    /\ ages = NoResult

\* Validation.validateAllInputs applied to the fields of the form
ValidateAllInputs ==
    /\ validation.status = "none"
    /\ validation' = [status |-> "done", all |-> validateAllInputs(formData, clock)]
    /\ UNCHANGED <<tz, birthDate, assessmentDate, gaBirth, useCorrection, results, ages,
                   clock, formData, state, formState>>

\* AgeCalculator.calculateAllAges applied to the validated values, as in
\* UIController.handleFormSubmit
CalculateValidated ==
    /\ validation.status = "done"
    /\ validation.all.isValid
    /\ ages' = calculateAllAges(validation.all.birthDate.value,
                                validation.all.gestationalAge.value,
                                validation.all.currentDate.value)
    /\ UNCHANGED <<tz, birthDate, assessmentDate, gaBirth, useCorrection, results, validation,
                   clock, formData, state, formState>>

NextForm == ValidateAllInputs \/ CalculateValidated
SpecForm == InitForm /\ [][NextForm]_vars

(***************************************************************************)
(* The React app: AgeCalculatorForm watches its values and reports every   *)
(* change of them, and every change of formState.isValid, to               *)
(* App.handleValuesChange in an effect.  react-hook-form validates with    *)
(* the zod resolver asynchronously, so the effect of a change may run      *)
(* before or after isValid has been brought up to date (isValidating);     *)
(* both orders are behaviours of the model.  The values of the form are    *)
(* the variables birthDate, assessmentDate, gaBirth and useCorrection,     *)
(* the results state of App is the variable results (NoResult is null).    *)
(***************************************************************************)
\* the days the date pickers offer, at the time of day of the clock; the assessment
\* date may also lie more than ten years after the birth
AppDates(lastDay) == {LocalDate(tz, BaseDay + d, LocalHours(clock)) : d \in 0..lastDay}
FarDate == LocalDate(tz, BaseDay + (365 * 10) + 2, LocalHours(clock))
AppGaInputs == [weeks : (22 - MaxOutOfRange)..22, days : {0, 6 + MaxOutOfRange}]

\* useForm's defaultValues, useState(null), and the effect of the first render
InitApp ==
    /\ tz \in Zones
    /\ clock \in {LocalDate(tz, BaseDay, h) : h \in TimesOfDay}
    /\ birthDate = clock
    /\ assessmentDate = clock
    /\ gaBirth = [weeks |-> 35, days |-> 0]
    /\ useCorrection = TRUE
    /\ results = NoResult
    /\ formState = [status |-> "mounted", isValid |-> FALSE, isValidating |-> TRUE,
                    effectPending |-> TRUE]
    /\ ages = NoResult
    /\ validation = NoResult
    /\ formData = NoResult
    /\ state = NoResult

\* the form's values after the user has changed one field
ChangedValues ==
    {[birthDate |-> b, assessmentDate |-> assessmentDate,
      gaBirth |-> gaBirth, useCorrection |-> useCorrection] : b \in AppDates(MaxAppDay)}
    \cup {[birthDate |-> birthDate, assessmentDate |-> a,
           gaBirth |-> gaBirth, useCorrection |-> useCorrection] :
              a \in AppDates(MaxAppDay) \cup {FarDate}}
    \cup {[birthDate |-> birthDate, assessmentDate |-> assessmentDate,
           gaBirth |-> g, useCorrection |-> useCorrection] : g \in AppGaInputs}
    \cup {[birthDate |-> birthDate, assessmentDate |-> assessmentDate,
           gaBirth |-> gaBirth, useCorrection |-> ~useCorrection]}

\* a field's onChange: watch() returns new values, memoizedValues changes and the
\* effect is due; the resolver starts validating the new values
ChangeValues ==
    /\ formState.status # "none"
    /\ \E values \in ChangedValues :
           /\ values # [birthDate |-> birthDate, assessmentDate |-> assessmentDate,
                        gaBirth |-> gaBirth, useCorrection |-> useCorrection]
           /\ birthDate' = values.birthDate
           /\ assessmentDate' = values.assessmentDate
           /\ gaBirth' = values.gaBirth
           /\ useCorrection' = values.useCorrection
    /\ formState' = [status |-> "mounted",
                     isValid |-> formState.isValid, isValidating |-> TRUE,
                     effectPending |-> TRUE]
    /\ UNCHANGED <<tz, results, ages, validation, clock, formData, state>>

\* zodResolver(CalculatorInputsSchema) has finished: formState.isValid is that of the
\* current values, and the effect is due when isValid has changed
ResolverDone ==
    /\ formState.status # "none"
    /\ formState.isValidating
    /\ formState' =
           [status |-> "mounted",
            isValid |-> CalculatorInputsSchema(
                            [birthDate |-> birthDate, assessmentDate |-> assessmentDate,
                             gaBirth |-> gaBirth, useCorrection |-> useCorrection]) = {},
            isValidating |-> FALSE,
            effectPending |->
                \/ formState.effectPending
                \/ formState.isValid #
                      (CalculatorInputsSchema(
                           [birthDate |-> birthDate, assessmentDate |-> assessmentDate,
                            gaBirth |-> gaBirth, useCorrection |-> useCorrection]) = {})]
    /\ UNCHANGED <<tz, birthDate, assessmentDate, gaBirth, useCorrection, results, ages,
                   validation, clock, formData, state>>

\* the try/catch of App.handleValuesChange: a thrown error sets the results to null
handleValuesChange_caught(computed) == IF computed.status = "ok" THEN computed ELSE NoResult

\* a handleValuesChange that keeps the results it has when the values are not valid
handleValuesChange_kept(values, isValid) ==
    IF /\ isValid
       /\ values.gaBirth.weeks >= 22 /\ values.gaBirth.weeks <= 42
       /\ values.gaBirth.days >= 0 /\ values.gaBirth.days <= 6
    THEN handleValuesChange_caught(computeCalculatorResults(values))
    ELSE results

\* App.handleValuesChange(values, isValid): the results it sets
handleValuesChange(values, isValid) ==
    IF /\ isValid
       /\ values.gaBirth.weeks >= 22 /\ values.gaBirth.weeks <= 42
       /\ values.gaBirth.days >= 0 /\ values.gaBirth.days <= 6
    THEN handleValuesChange_caught(computeCalculatorResults(values))
    ELSE NoResult

\* the effect of AgeCalculatorForm: onValuesChange(memoizedValues, isValid)
HandleValuesChange ==
    /\ formState.status # "none"
    /\ formState.effectPending
    /\ results' = handleValuesChange(
                      [birthDate |-> birthDate, assessmentDate |-> assessmentDate,
                       gaBirth |-> gaBirth, useCorrection |-> useCorrection],
                      formState.isValid)
    /\ formState' = [status |-> "mounted", isValid |-> formState.isValid,
                     isValidating |-> formState.isValidating, effectPending |-> FALSE]
    /\ UNCHANGED <<tz, birthDate, assessmentDate, gaBirth, useCorrection, ages,
                   validation, clock, formData, state>>

NextApp == ChangeValues \/ ResolverDone \/ HandleValuesChange
SpecApp == InitApp /\ [][NextApp]_vars

(***************************************************************************)
(* The page of the JavaScript form: UIController.state and the submit and  *)
(* clear handlers.  handleFormSubmit is declared async but awaits nothing: *)
(* it runs from its first line to its finally block within one event, so   *)
(* it is one action.  The variable validation keeps what the last submit   *)
(* validated, until the fields are edited or cleared.                      *)
(***************************************************************************)
\* the fields after form.reset() and setDefaultValues(): empty, NaN, today's date
ClearedForm ==
    [birthDate |-> EmptyText, gestationalWeeks |-> -1, gestationalDays |-> -1,
     currentDate |-> DateText(FormToday)]

SubmitInputs ==
    [birthDate : {EmptyText, OtherText} \cup {DateText(BaseDay + d) : d \in 0..MaxAppDay},
     gestationalWeeks : {-1} \cup (MinGaWeeks..(MinGaWeeks + MaxOutOfRange)),
     gestationalDays : {-1, 0},
     currentDate : {OtherText, DateText(FormToday)}]

InitSubmit ==
    /\ tz \in Zones
    /\ clock \in {LocalDate(tz, FormToday, h) : h \in TimesOfDay}
    /\ formData = ClearedForm
    /\ state = [status |-> "ready", isCalculating |-> FALSE,
                lastCalculation |-> NoResult, currentInputs |-> NoResult]
    /\ validation = NoResult
    /\ formState = NoResult
    /\ birthDate = clock
    /\ assessmentDate = clock
    /\ gaBirth = [weeks |-> 35, days |-> 0]
    /\ useCorrection = TRUE
    /\ results = NoResult
    /\ ages = NoResult

\* handleFormSubmit after calculateAllAges: the results are stored, or the error caught
handleFormSubmit_calculated(uiState, data, calculated) ==
    IF calculated.status = "ok"
    THEN [uiState EXCEPT !.isCalculating = FALSE, !.lastCalculation = calculated,
                         !.currentInputs = data]
    ELSE [uiState EXCEPT !.isCalculating = FALSE]

\* a handleFormSubmit that stores the inputs of a submit that fails validation
handleFormSubmit_validated_inputsStored(uiState, data, validated) ==
    IF ~validated.isValid
    THEN [uiState EXCEPT !.isCalculating = FALSE, !.currentInputs = data]
    ELSE handleFormSubmit_calculated(
             uiState, data,
             calculateAllAges(validated.birthDate.value, validated.gestationalAge.value,
                              validated.currentDate.value))

\* handleFormSubmit after validateAllInputs: return on invalid input, else calculate
handleFormSubmit_validated(uiState, data, validated) ==
    IF ~validated.isValid
    THEN [uiState EXCEPT !.isCalculating = FALSE]
    ELSE handleFormSubmit_calculated(
             uiState, data,
             calculateAllAges(validated.birthDate.value, validated.gestationalAge.value,
                              validated.currentDate.value))

\* UIController.handleFormSubmit: the state it leaves, data being getFormData()
handleFormSubmit(uiState, data, instant) ==
    IF uiState.isCalculating
    THEN uiState
    ELSE handleFormSubmit_validated(uiState, data, validateAllInputs(data, instant))

\* the user changes the fields of the form
EditForm ==
    /\ state.status # "none"
    /\ formData' \in SubmitInputs \ {formData}
    /\ validation' = NoResult
    /\ UNCHANGED <<tz, birthDate, assessmentDate, gaBirth, useCorrection, results, ages,
                   clock, state, formState>>

\* the submit event
HandleFormSubmit ==
    /\ state.status # "none"
    /\ state' = handleFormSubmit(state, formData, clock)
    /\ validation' = IF state.isCalculating THEN validation
                     ELSE [status |-> "done", formData |-> formData,
                           isValid |-> validateAllInputs(formData, clock).isValid]
    /\ UNCHANGED <<tz, birthDate, assessmentDate, gaBirth, useCorrection, results, ages,
                   clock, formData, formState>>

\* UIController.handleClear: the form and the stored calculation are reset
HandleClear ==
    /\ state.status # "none"
    /\ formData' = ClearedForm
    /\ state' = [state EXCEPT !.lastCalculation = NoResult, !.currentInputs = NoResult]
    /\ validation' = NoResult
    /\ UNCHANGED <<tz, birthDate, assessmentDate, gaBirth, useCorrection, results, ages,
                   clock, formState>>

NextSubmit == EditForm \/ HandleFormSubmit \/ HandleClear
SpecSubmit == InitSubmit /\ [][NextSubmit]_vars

(***************************************************************************)
(* Properties.                                                             *)
(***************************************************************************)
Inputs == [birthDate |-> birthDate, assessmentDate |-> assessmentDate,
           gaBirth |-> gaBirth, useCorrection |-> useCorrection]
GaTotalDays == gaBirth.weeks * 7 + gaBirth.days

\* computeCalculatorResults has been applied; its input passes the form's schema
TsCalled == results.status # "none"
TsValidInput == CalculatorInputsSchema(Inputs) = {}
\* calculateAllAges has been applied; its input passes the form's validation
JsCalled == ages.status # "none"
JsValidInput ==
    /\ Validation_validateGestationalAge(gaBirth.weeks, gaBirth.days).isValid
    /\ ~(assessmentDate < birthDate)

\* C1: for every valid input the postmenstrual age in days is the gestational age in
\* days (weeks*7 + days) plus the postnatal age in days, in computeCalculatorResults
\* (pmaDays) and in AgeCalculator.calculatePostmenstrualAge (totalDays).
C1_PmaIsGaPlusPna ==
    /\ (TsCalled /\ TsValidInput =>
            /\ results.status = "ok"
            /\ results.value.pmaDays = GaTotalDays + results.value.pnaDays)
    /\ (JsCalled /\ JsValidInput =>
            /\ ages.status = "ok"
            /\ ages.value.postmenstrual.totalDays
                   = GaTotalDays + ages.value.chronological.totalDays)

\* 28w0d at 14 days old: 196 + 14 = 210 days in both engines
C1_Witness ==
    /\ TsValidInput /\ JsValidInput
    /\ results.status = "ok" /\ ages.status = "ok"
    /\ gaBirth = [weeks |-> 28, days |-> 0]
    /\ results.value.pnaDays = 14 /\ results.value.pmaDays = 210
    /\ ages.value.chronological.totalDays = 14
    /\ ages.value.postmenstrual.totalDays = 210

\* C2 (as claimed): corrected.days of computeCalculatorResults is pnaDays minus the
\* correction offset for every valid input, negative differences included, never
\* clamped to zero.
C2_CorrectedNeverClamped ==
    TsCalled /\ TsValidInput =>
        /\ results.status = "ok"
        /\ results.value.corrected.days
               = results.value.pnaDays
                     - (IF useCorrection THEN Max(0, 40 * 7 - GaTotalDays) ELSE 0)

\* C3: AgeCalculator.calculateCorrectedAge returns totalDays = chronologicalDays
\* - (280 - gestationalAge.totalDays) for every input, negative values as they are;
\* isNegative is true exactly when totalDays < 0; at a gestational age of exactly 280
\* days the corrected age is the chronological age.
C3_CorrectedAgeFormula ==
    JsCalled =>
        /\ ages.status = "ok"
        /\ ages.value.corrected.totalDays
               = ages.value.chronological.totalDays
                     - (280 - ages.value.gestationalAge.totalDays)
        /\ ages.value.corrected.isNegative = (ages.value.corrected.totalDays < 0)
        /\ (ages.value.gestationalAge.totalDays = 280 =>
                ages.value.corrected.totalDays = ages.value.chronological.totalDays)

\* 38w0d at 4 days old: 4 - (280 - 266) = -10, flagged negative
C3_Witness ==
    /\ ages.status = "ok"
    /\ gaBirth = [weeks |-> 38, days |-> 0]
    /\ ages.value.chronological.totalDays = 4
    /\ ages.value.corrected.totalDays = -10
    /\ ages.value.corrected.isNegative

\* C4: with useCorrection = false, corrected.days of computeCalculatorResults is
\* pnaDays, whatever the gestational age.
C4_NoCorrectionIsPna ==
    TsCalled /\ TsValidInput /\ ~useCorrection =>
        /\ results.status = "ok"
        /\ results.value.corrected.days = results.value.pnaDays
        /\ ~results.value.metadata.isCorrectionApplied

\* 28w0d, correction off, 9 days old: corrected.days is 9
C4_Witness ==
    /\ TsValidInput /\ ~useCorrection
    /\ results.status = "ok"
    /\ gaBirth = [weeks |-> 28, days |-> 0]
    /\ results.value.pnaDays = 9
    /\ results.value.corrected.days = 9

C6_PostTermCorrectedIsOlder ==
    JsCalled /\ ages.value.gestationalAge.totalDays > 280 =>
        /\ ages.value.corrected.totalDays > ages.value.chronological.totalDays
        /\ ages.value.corrected.totalDays - ages.value.chronological.totalDays
               = ages.value.gestationalAge.totalDays - 280

\* 42w0d at 14 days old: corrected age 28 days
C6_Witness ==
    /\ ages.status = "ok"
    /\ ages.value.gestationalAge = [weeks |-> 42, days |-> 0, totalDays |-> 294]
    /\ ages.value.chronological.totalDays = 14
    /\ ages.value.corrected.totalDays = 28

ZeroWeeksDays == [weeks |-> 0, days |-> 0]
AgeIsZero(age) ==
    /\ age.totalDays = 0 /\ age.weeks = 0 /\ age.days = 0
    /\ age.months = 0 /\ age.years = 0

\* C7 (as claimed): when assessmentDate equals birthDate every day count of the result
\* (postnatal, postmenstrual, corrected) is 0 and every weeks/days and calendar
\* breakdown is all zeros, for any valid gestational age.
C7_SameDayAllZero ==
    /\ (TsCalled /\ TsValidInput /\ assessmentDate = birthDate =>
            /\ results.status = "ok"
            /\ results.value.pnaDays = 0 /\ results.value.pna.weeksDays = ZeroWeeksDays
            /\ results.value.pna.calendar = ZeroBreakdown
            /\ results.value.pmaDays = 0 /\ results.value.pma = ZeroWeeksDays
            /\ results.value.corrected.days = 0
            /\ results.value.corrected.weeksDays = ZeroWeeksDays
            /\ results.value.corrected.calendar = ZeroBreakdown)
    /\ (JsCalled /\ JsValidInput /\ assessmentDate = birthDate =>
            /\ AgeIsZero(ages.value.chronological)
            /\ AgeIsZero(ages.value.postmenstrual)
            /\ AgeIsZero(ages.value.corrected))

\* C7 (amended): when assessmentDate equals birthDate the postnatal day count is 0 and
\* its weeks/days and calendar breakdowns are all zeros; the postmenstrual day count is
\* the gestational age in days, with the weeks and days of the gestational age; the
\* corrected calendar breakdown is all zeros; the corrected day count is 0 where the
\* prematurity offset is 0, and AgeCalculator.calculateCorrectedAge returns
\* totalDays - 280 (minus the offset).
C7_SameDayPostnatalZero ==
    /\ (TsCalled /\ TsValidInput /\ assessmentDate = birthDate =>
            /\ results.status = "ok"
            /\ results.value.pnaDays = 0 /\ results.value.pna.weeksDays = ZeroWeeksDays
            /\ results.value.pna.calendar = ZeroBreakdown
            /\ results.value.pmaDays = GaTotalDays /\ results.value.pma = gaBirth
            /\ results.value.corrected.calendar = ZeroBreakdown
            /\ (~useCorrection \/ GaTotalDays >= 280 =>
                    /\ results.value.corrected.days = 0
                    /\ results.value.corrected.weeksDays = ZeroWeeksDays))
    /\ (JsCalled /\ JsValidInput /\ assessmentDate = birthDate =>
            /\ AgeIsZero(ages.value.chronological)
            /\ ages.value.postmenstrual.totalDays = GaTotalDays
            /\ ages.value.postmenstrual.weeks = gaBirth.weeks
            /\ ages.value.postmenstrual.days = gaBirth.days
            /\ ages.value.corrected.totalDays = GaTotalDays - 280)

\* born and assessed on the same day at 35w0d: postnatal 0, postmenstrual 245
C7_Witness ==
    /\ assessmentDate = birthDate /\ TsValidInput /\ JsValidInput
    /\ gaBirth = [weeks |-> 35, days |-> 0]
    /\ results.status = "ok" /\ ages.status = "ok"
    /\ results.value.pnaDays = 0 /\ results.value.pmaDays = 245
    /\ ages.value.chronological.totalDays = 0
    /\ ages.value.postmenstrual.totalDays = 245
    /\ ages.value.corrected.totalDays = -35

\* the three weeks/days conversions of each result, as <<total, weeks, days>>
TsConversions ==
    {<<results.value.pnaDays, results.value.pna.weeksDays.weeks,
       results.value.pna.weeksDays.days>>,
     <<results.value.pmaDays, results.value.pma.weeks, results.value.pma.days>>,
     <<results.value.corrected.days, results.value.corrected.weeksDays.weeks,
       results.value.corrected.weeksDays.days>>}
AgeConversion(age) == <<age.totalDays, age.weeks, age.days>>
JsConversions ==
    {AgeConversion(ages.value.chronological), AgeConversion(ages.value.postmenstrual),
     AgeConversion(ages.value.corrected)}

\* C8 (as claimed): for every day count d of a valid calculation, negative corrected
\* ages included, weeks*7 + days == |d| for the fields returned by toWeeksDaysFromDays(d)
\* and by Utils.daysToWeeksAndDays(d).
C8_RoundTripIsMagnitude ==
    /\ (TsCalled /\ TsValidInput =>
            /\ results.status = "ok"
            /\ \A c \in TsConversions : c[2] * 7 + c[3] = Abs(c[1]))
    /\ (JsCalled /\ JsValidInput =>
            \A c \in JsConversions : c[2] * 7 + c[3] = Abs(c[1]))

\* C8 (amended): for every day count d of a valid calculation, weeks*7 + days == d, the
\* signed value, so |weeks*7 + days| == |d|: toWeeksDaysFromDays only ever converts
\* d >= 0, Utils.daysToWeeksAndDays puts the sign of a negative d on both fields.
C8_RoundTripIsSigned ==
    /\ (TsCalled /\ TsValidInput =>
            /\ results.status = "ok"
            /\ \A c \in TsConversions :
                   c[1] >= 0 /\ c[2] * 7 + c[3] = c[1] /\ c[3] \in 0..6)
    /\ (JsCalled /\ JsValidInput =>
            \A c \in JsConversions :
                /\ c[2] * 7 + c[3] = c[1]
                /\ Abs(c[2] * 7 + c[3]) = Abs(c[1])
                /\ Abs(c[3]) \in 0..6)

\* 38w0d at 4 days old: corrected age -10 days is -1 week -3 days
C8_Witness ==
    /\ JsValidInput /\ ages.status = "ok"
    /\ ages.value.corrected.totalDays = -10
    /\ ages.value.corrected.weeks = -1 /\ ages.value.corrected.days = -3
    /\ ages.value.chronological.weeks = 0 /\ ages.value.chronological.days = 4

\* the dates the JavaScript form hands to the engine: Utils.parseDate and Utils.getToday
\* give local midnights, validateCurrentDate refuses a calculation date before birth
FormDates ==
    /\ LocalHours(birthDate) = 0 /\ LocalHours(assessmentDate) = 0
    /\ ~(assessmentDate < birthDate)

\* C9 (as claimed): daysBetween is antisymmetric, daysBetween(a, b) == -daysBetween(b, a)
\* for all dates a and b; stated here on the dates of the form.
C9_DaysBetweenAntisymmetric ==
    JsCalled /\ FormDates =>
        ages.value.chronological.totalDays = 0 - Utils_daysBetween(assessmentDate, birthDate)

\* C10 (as claimed): the day difference between two dates is the difference of their
\* calendar days, also when the interval between them is not a multiple of 24 hours
\* (daylight-saving shift); stated here on the dates of the form.
C10_DaysBetweenIsCalendarDifference ==
    JsCalled /\ FormDates =>
        ages.value.chronological.totalDays
            = LocalDayNumber(assessmentDate) - LocalDayNumber(birthDate)

\* the inputs with the assessment date moved to the next calendar day, same time of day
NextDay(date) == setDate(date, getDate(date) + 1)
LaterInputs == [Inputs EXCEPT !.assessmentDate = NextDay(assessmentDate)]
LaterResults == computeCalculatorResults(LaterInputs)
LaterAges ==
    calculateAllAges(birthDate, GestationalAgeValue(gaBirth.weeks, gaBirth.days),
                     NextDay(assessmentDate))

\* C11 (as claimed): for fixed birth date, gestational age and correction flag, an
\* assessment date one day later gives a postnatal age and a postmenstrual age of
\* exactly one day more, and a corrected age of exactly one day more whenever it is
\* not floored at zero, in computeCalculatorResults and in the AgeCalculator alike.
C11_OneDayLaterIsOneDayOlder ==
    /\ (TsCalled /\ TsValidInput =>
            /\ results.status = "ok" /\ LaterResults.status = "ok"
            /\ LaterResults.value.pnaDays = results.value.pnaDays + 1
            /\ LaterResults.value.pmaDays = results.value.pmaDays + 1
            /\ (LaterResults.value.corrected.days > 0 =>
                    LaterResults.value.corrected.days = results.value.corrected.days + 1))
    /\ (JsCalled /\ JsValidInput /\ FormDates =>
            /\ LaterAges.value.chronological.totalDays
                   = ages.value.chronological.totalDays + 1
            /\ LaterAges.value.postmenstrual.totalDays
                   = ages.value.postmenstrual.totalDays + 1
            /\ LaterAges.value.corrected.totalDays = ages.value.corrected.totalDays + 1)

\* C12: whenever computeCalculatorResults returns a result, metadata.isPremature is
\* true exactly when the gestational age at birth is below 37w0d (259 days); the dates
\* and the correction switch have no part in it.
C12_PrematureBelow37Weeks ==
    TsCalled /\ results.status = "ok" =>
        results.value.metadata.isPremature = (GaTotalDays < 37 * 7)

C12_Witness ==
    /\ results.status = "ok" /\ ~useCorrection
    /\ gaBirth = [weeks |-> 36, days |-> 6]
    /\ results.value.pnaDays = 12
    /\ results.value.metadata.isPremature

\* the corrected birth date of calcCalendarBreakdownFromCorrected for the inputs
CorrectedBirthDate ==
    addDays(toUtcStartOfDay(birthDate), correctionDaysOf(useCorrection, GaTotalDays).value)

\* C13: the calendar breakdown of a span whose end is on or before its start is the zero
\* breakdown: from birth when the assessment day is the birth day or before it, from the
\* corrected birth date when the assessment day is on or before that date; no field is
\* negative.
C13_ReversedSpanIsZero ==
    TsCalled =>
        /\ (toUtcStartOfDay(assessmentDate) <= toUtcStartOfDay(birthDate) =>
                calcCalendarBreakdownFromBirth(birthDate, assessmentDate) = ZeroBreakdown)
        /\ (toUtcStartOfDay(assessmentDate) <= CorrectedBirthDate =>
                calcCalendarBreakdownFromCorrected(
                    birthDate, correctionDaysOf(useCorrection, GaTotalDays).value,
                    assessmentDate) = ZeroBreakdown)
        /\ (results.status = "ok" /\ toUtcStartOfDay(assessmentDate) = toUtcStartOfDay(birthDate) =>
                results.value.pna.calendar = ZeroBreakdown)
        /\ (results.status = "ok" /\ toUtcStartOfDay(assessmentDate) <= CorrectedBirthDate =>
                results.value.corrected.calendar = ZeroBreakdown)

C13_Witness ==
    /\ results.status = "ok" /\ useCorrection
    /\ gaBirth = [weeks |-> 39, days |-> 3]
    /\ results.value.pnaDays = 2
    /\ toUtcStartOfDay(assessmentDate) < CorrectedBirthDate
    /\ results.value.pna.calendar = [years |-> 0, months |-> 0, weeks |-> 0, days |-> 2]
    /\ results.value.corrected.calendar = ZeroBreakdown

\* both dates come from a date field: local midnights
PickedDates == LocalHours(birthDate) = 0 /\ LocalHours(assessmentDate) = 0

\* computeCalculatorResults threw the error of calcPnaDays and the schema reports the
\* date order on the field assessmentDate
TsRejectsDateOrder ==
    /\ results = Throw("Assessment date must be on or after birth date")
    /\ <<<<"assessmentDate">>, "assessmentDate must be on or after birthDate">>
           \in CalculatorInputsSchema(Inputs)

\* C14: an assessment date earlier than the birth date is rejected with an error and
\* no result.  computeCalculatorResults throws the error of calcPnaDays and
\* CalculatorInputsSchema reports an issue on assessmentDate whenever the assessment
\* day (the UTC day the engine reads) is before the birth day, and so whenever two
\* picked dates are in that order; Validation.validateCurrentDate then returns
\* isValid = false with the "before birth" error, whatever the clock says.
C14_AssessmentBeforeBirthRejected ==
    TsCalled =>
        /\ (toUtcStartOfDay(assessmentDate) < toUtcStartOfDay(birthDate) => TsRejectsDateOrder)
        /\ (PickedDates /\ LocalDayNumber(assessmentDate) < LocalDayNumber(birthDate) =>
                /\ TsRejectsDateOrder
                /\ \A now \in DateInputs(tz) :
                       Validation_validateCurrentDate(assessmentDate, birthDate, now)
                           = [isValid |-> FALSE, warning |-> "",
                              error |-> "Calculation date cannot be before birth date"])

C14_Witness ==
    /\ tz = "New_York" /\ PickedDates
    /\ LocalDayNumber(assessmentDate) = LocalDayNumber(birthDate) - 1
    /\ results.status = "error"
    /\ results.error = "Assessment date must be on or after birth date"

\* C15: converting a gestational age to days gives weeks*7 + days when days is in 0..6
\* and weeks is not negative, and fails otherwise, the days being looked at first: with
\* the dates in order computeCalculatorResults computes on that number of days or throws
\* the error of toDaysFromWeeksDays.  Days above 6 next to valid weeks (40w7d) are
\* rejected on the days: by toDaysFromWeeksDays, by the schema with an issue on
\* gaBirth.days, by Validation.validateGestationalAge with its days error.
C15_GaToDaysOrError ==
    TsCalled /\ ~(toUtcStartOfDay(assessmentDate) < toUtcStartOfDay(birthDate)) =>
        /\ (gaBirth.days \in 0..6 /\ gaBirth.weeks >= 0 =>
                /\ toDaysFromWeeksDays(gaBirth) = Ok(gaBirth.weeks * 7 + gaBirth.days)
                /\ results.status = "ok"
                /\ results.value.pmaDays - results.value.pnaDays
                       = gaBirth.weeks * 7 + gaBirth.days)
        /\ (gaBirth.days \notin 0..6 => results = Throw("Days must be in [0..6]"))
        /\ (gaBirth.days \in 0..6 /\ gaBirth.weeks < 0 =>
                results = Throw("Weeks must be non-negative"))
        /\ (gaBirth.days > 6 /\ gaBirth.weeks \in 22..42 =>
                /\ CalculatorInputsSchema(Inputs) = {<<<<"gaBirth", "days">>, "GA days must be <= 6">>}
                /\ Validation_validateGestationalAge(gaBirth.weeks, gaBirth.days)
                       = [isValid |-> FALSE, warning |-> "",
                          error |-> "Gestational days must be between 0 and 6"])

C15_Witness ==
    /\ gaBirth = [weeks |-> 40, days |-> 7]
    /\ results = Throw("Days must be in [0..6]")
    /\ ages.status = "ok" /\ ages.value.gestationalAge.totalDays = 287

\* the validators have been applied to the inputs
Validated == validation.status = "done"
\* the issues the schema reports on the gestational age
GaIssues == {i \in validation.schema : i[1][1] = "gaBirth"}

InputContract ==
    /\ ~(toUtcStartOfDay(assessmentDate) < toUtcStartOfDay(birthDate))
    /\ validateGestationalAge(gaBirth).status = "ok"

\* C17 (as claimed): computeCalculatorResults returns a result only when the whole input
\* contract holds, and fails without a result for every input that violates it.
C17_NoResultOnInvalidInput ==
    TsCalled => (results.status = "ok") = InputContract

\* C18: in every postmenstrual age result isTermEquivalent is true exactly when the
\* postmenstrual age is 280 days or more and daysToTerm is max(0, 280 - pmaDays), so
\* daysToTerm is 0 exactly when isTermEquivalent; at 280 days the result is
\* term-equivalent with 0 days to term.
C18_TermEquivalentFrom280 ==
    JsCalled =>
        /\ ages.value.postmenstrual.isTermEquivalent
               = (ages.value.postmenstrual.totalDays >= 280)
        /\ ages.value.postmenstrual.daysToTerm
               = Max(0, 280 - ages.value.postmenstrual.totalDays)
        /\ (ages.value.postmenstrual.daysToTerm = 0)
               = ages.value.postmenstrual.isTermEquivalent

C18_Witness ==
    /\ JsValidInput /\ ages.status = "ok"
    /\ gaBirth = [weeks |-> 39, days |-> 2]
    /\ ages.value.chronological.totalDays = 5
    /\ ages.value.postmenstrual.totalDays = 280
    /\ ages.value.postmenstrual.isTermEquivalent
    /\ ages.value.postmenstrual.daysToTerm = 0

\* the tiers of prematurity by completed weeks of gestation
PrematurityTiers ==
    <<[weeks |-> {w \in Int : w < 24}, level |-> "Periviable (extremely high risk)"],
      [weeks |-> 24..27, level |-> "Extremely preterm"],
      [weeks |-> 28..31, level |-> "Very preterm"],
      [weeks |-> 32..33, level |-> "Moderate preterm"],
      [weeks |-> 34..36, level |-> "Late preterm"],
      [weeks |-> 37..42, level |-> "Term"],
      [weeks |-> {w \in Int : w > 42}, level |-> "Post-term"]>>

ContainsRelevant ==
    {"Highly relevant for development assessment", "Moderately relevant for early development"}
ContainsLimited == {"Limited relevance (born at term)"}

FormValidated == validation.status = "done"

\* the React form's values with the given birth date, all else in order: assessment on
\* the day of birth, 35w0d, correction on (the form's default values but for the dates)
DefaultsBornOn(date) ==
    [birthDate |-> date, assessmentDate |-> date,
     gaBirth |-> [weeks |-> 35, days |-> 0], useCorrection |-> TRUE]

\* C21: a birth date in the future relative to the clock at validation time is
\* rejected at every validation boundary, by Validation.validateBirthDate and by
\* CalculatorInputsSchema; a birth date equal to today is accepted.
C21_FutureBirthDateRejected ==
    FormValidated /\ formData.birthDate.kind = "date" =>
        /\ (Utils_parseDate(formData.birthDate) > Utils_getToday(clock) =>
                /\ ~validation.all.birthDate.isValid
                /\ validation.all.birthDate.error = "Birth date cannot be in the future"
                /\ ~validation.all.isValid
                /\ CalculatorInputsSchema(
                       DefaultsBornOn(Utils_parseDate(formData.birthDate))) # {})
        /\ (Utils_parseDate(formData.birthDate) = Utils_getToday(clock) =>
                /\ validation.all.birthDate.isValid
                /\ CalculatorInputsSchema(
                       DefaultsBornOn(Utils_parseDate(formData.birthDate))) = {})

\* the three field validations of validateAllInputs are all valid
FieldsValid ==
    /\ validation.all.birthDate.isValid
    /\ validation.all.gestationalAge.isValid
    /\ validation.all.currentDate.isValid

\* the warnings performCrossValidation can give
CrossValidationWarnings ==
    {"Very preterm infant in first week of life. Clinical interpretation requires specialized neonatal expertise.",
     "Corrected age is very negative (more than 20 weeks). Ensure all inputs are correct.",
     "Infant was born at term or near-term. Corrected age may not be clinically relevant.",
     "Corrected age is typically only used for the first 2-3 years of life. Consider using chronological age for older children."}

\* C22 (as claimed): for every gestational age with weeks in 20..44 and days in 0..6
\* Validation.validateGestationalAge returns isValid = true, an unusual value (weeks < 32
\* or weeks >= 42) being reported only as a warning; and the cross-validation warnings
\* of validateAllInputs never make isValid false.
C22_UnusualInputNeverRejected ==
    FormValidated =>
        /\ (formData.gestationalWeeks \in 20..44 /\ formData.gestationalDays \in 0..6 =>
                /\ validation.all.gestationalAge.isValid
                /\ validation.all.gestationalAge.error = ""
                /\ (validation.all.gestationalAge.warning # ""
                       <=> (formData.gestationalWeeks < 32 \/ formData.gestationalWeeks >= 42)))
        /\ validation.all.isValid = FieldsValid

\* C22 (amended): for every gestational age with weeks in 20..43 and days in 0..6, and
\* for 44w0d, Validation.validateGestationalAge returns isValid = true, an unusual value
\* (weeks < 32 or weeks >= 42) being reported only as a warning; 44 weeks with 1..6 days
\* is rejected as exceeding 44 weeks and 0 days; and the cross-validation warnings of
\* validateAllInputs never make isValid false.
C22_UnusualInputUpTo44w0d ==
    FormValidated =>
        /\ (/\ formData.gestationalWeeks \in 20..44 /\ formData.gestationalDays \in 0..6
            /\ (formData.gestationalWeeks * 7) + formData.gestationalDays <= 44 * 7
            => /\ validation.all.gestationalAge.isValid
               /\ validation.all.gestationalAge.error = ""
               /\ (validation.all.gestationalAge.warning # ""
                      <=> (formData.gestationalWeeks < 32 \/ formData.gestationalWeeks >= 42)))
        /\ (formData.gestationalWeeks = 44 /\ formData.gestationalDays \in 1..6 =>
                /\ ~validation.all.gestationalAge.isValid
                /\ validation.all.gestationalAge.error
                       = "Total gestational age cannot exceed 44 weeks and 0 days")
        /\ validation.all.isValid = FieldsValid

C22_Witness ==
    /\ FormValidated
    /\ formData.gestationalWeeks = 42 /\ formData.gestationalDays = 6
    /\ validation.all.isValid
    /\ Len(validation.all.warnings) >= 2
    /\ \E i \in 1..Len(validation.all.warnings) :
           validation.all.warnings[i] \in CrossValidationWarnings

FieldResults ==
    <<validation.all.birthDate, validation.all.gestationalAge, validation.all.currentDate>>

\* C24: Validation.validateAllInputs returns isValid = true exactly when the birth
\* date, gestational age and calculation date validations are all valid, and exactly
\* when its errors list is empty; every invalid field contributes a non-empty error
\* message and warnings alone never add an error.
C24_ValidIffNoErrors ==
    FormValidated =>
        /\ (validation.all.isValid <=> \A i \in 1..3 : FieldResults[i].isValid)
        /\ (validation.all.isValid <=> validation.all.errors = <<>>)
        /\ \A i \in 1..3 :
               /\ (~FieldResults[i].isValid =>
                       /\ FieldResults[i].error # ""
                       /\ \E k \in 1..Len(validation.all.errors) :
                              validation.all.errors[k] = FieldResults[i].error)
               /\ (FieldResults[i].isValid => FieldResults[i].error = "")
        /\ Len(validation.all.errors)
               = Cardinality({i \in 1..3 : ~FieldResults[i].isValid})

\* a birth date with a warning, a gestational age and a calculation date in error
C24_Witness ==
    /\ FormValidated
    /\ ~validation.all.isValid
    /\ validation.all.birthDate.isValid /\ validation.all.birthDate.warning # ""
    /\ Len(validation.all.warnings) = 1
    /\ Len(validation.all.errors) = 2

\* C25: after any sequence of form value changes in the React app, the displayed
\* results state is either null (the latest values are invalid, or the computation
\* threw) or equals computeCalculatorResults applied to the latest values; a result
\* computed from earlier values is never retained once a newer change has been handled.
C25_ResultsAreOfLatestValues ==
    formState.status # "none" =>
        /\ (~formState.effectPending =>
                \/ results = NoResult
                \/ results = computeCalculatorResults(Inputs))
        /\ (~formState.effectPending /\ ~formState.isValidating =>
                results = IF TsValidInput /\ computeCalculatorResults(Inputs).status = "ok"
                          THEN computeCalculatorResults(Inputs)
                          ELSE NoResult)

\* the gestational age and the assessment date have been changed, both changes have
\* been handled, and the results shown are those of the values now in the form
C25_Witness ==
    /\ formState.status # "none"
    /\ ~formState.effectPending /\ ~formState.isValidating
    /\ gaBirth = [weeks |-> 22, days |-> 0]
    /\ assessmentDate > birthDate
    /\ results.status = "ok"
    /\ results = computeCalculatorResults(Inputs)

\* C26: in every result of AgeCalculator.calculateAllAges, for every birth date,
\* current date and gestational age, postmenstrual.totalDays - corrected.totalDays is
\* 280: the two ages always differ by exactly the 40-week term reference.
C26_PmaMinusCorrectedIs280 ==
    JsCalled =>
        /\ ages.status = "ok"
        /\ ages.value.postmenstrual.totalDays - ages.value.corrected.totalDays = 280

\* 33w5d at 9 days old: corrected -35, postmenstrual 245
C26_Witness ==
    /\ ages.status = "ok"
    /\ gaBirth = [weeks |-> 33, days |-> 5]
    /\ ages.value.chronological.totalDays = 9
    /\ ages.value.corrected.totalDays = -35
    /\ ages.value.postmenstrual.totalDays = 245

\* C27: in every result of AgeCalculator.calculateAllAges the term indicators agree:
\* corrected.isNegative is true exactly when postmenstrual.isTermEquivalent is false,
\* exactly when insights.termStatus.status is "pre-term", and exactly when
\* insights.developmentalStage is the "Pre-term equivalent (before due date)" stage;
\* termStatus.timeToTerm equals postmenstrual.daysToTerm when pre-term.
C27_TermIndicatorsAgree ==
    JsCalled /\ ages.status = "ok" =>
        /\ (ages.value.corrected.isNegative <=> ~ages.value.postmenstrual.isTermEquivalent)
        /\ (ages.value.corrected.isNegative
               <=> ages.value.insights.termStatus.status = "pre-term")
        /\ (ages.value.corrected.isNegative
               <=> ages.value.insights.developmentalStage
                      = "Pre-term equivalent (before due date)")
        /\ (ages.value.insights.termStatus.status = "pre-term" =>
                ages.value.insights.termStatus.timeToTerm
                    = ages.value.postmenstrual.daysToTerm)

\* 38w6d at 8 days old, exactly 40 weeks: every indicator says term-equivalent
C27_Witness ==
    /\ ages.status = "ok"
    /\ gaBirth = [weeks |-> 38, days |-> 6]
    /\ ages.value.postmenstrual.totalDays = 280
    /\ ~ages.value.corrected.isNegative
    /\ ages.value.insights.termStatus.status = "term-equivalent"

\* the weeks/days pairs of a result of computeCalculatorResults
TsWeeksDays ==
    {results.value.pna.weeksDays, results.value.pma, results.value.corrected.weeksDays}

AgesAtTerm ==
    calculateAllAges(birthDate, GestationalAgeValue(gaBirth.weeks, gaBirth.days),
                     ages.value.corrected.wouldReachTermAt)

\* C29: the term-equivalent date returned by AgeCalculator.calculateTermEquivalentDate
\* (corrected.wouldReachTermAt / postmenstrual.termDate) is the birth date shifted by
\* 280 - gestationalAge.totalDays days, and calculating with that date as the current
\* date gives a corrected age of exactly 0 days and a postmenstrual age of exactly 280
\* days; for a post-term birth the date lies before the birth date.
C29_TermDateRoundTrip ==
    JsCalled /\ JsValidInput /\ ages.status = "ok" =>
        /\ ages.value.postmenstrual.termDate = ages.value.corrected.wouldReachTermAt
        /\ LocalDayNumber(ages.value.corrected.wouldReachTermAt)
               = LocalDayNumber(birthDate) + (280 - GaTotalDays)
        /\ LocalHours(ages.value.corrected.wouldReachTermAt) = LocalHours(birthDate)
        /\ AgesAtTerm.value.corrected.totalDays = 0
        /\ AgesAtTerm.value.postmenstrual.totalDays = 280
        /\ (GaTotalDays > 280 => ages.value.corrected.wouldReachTermAt < birthDate)

====
